---- MODULE Spec2Model ----
(***************************************************************************)
(* VRF poker game (src/src/main.rs): a Player draws a card by VRF-signing  *)
(* the round's commitment input, reveals it by mapping the VRF output to   *)
(* 0..51, and anyone verifies it against the player's public key.  main    *)
(* plays ten rounds over a HashMap of two players.                         *)
(*                                                                         *)
(* The specifications share the variables:                                 *)
(*   Spec        the game session of main (lines 53-91);                   *)
(*   SpecFair    the same, running to completion;                          *)
(*   SpecPlayer  the Player API called in any order on any input, as the   *)
(*               tests module does (lines 94-137), with the winner         *)
(*               expression of line 86 applied to the resulting map;       *)
(*   SpecVerify  one Player called repeatedly, an earlier verify_card      *)
(*               result kept for comparison;                               *)
(*   SpecMapper  the card mapping of reveal_card (lines 32-37) applied to  *)
(*               byte sequences of every length.                           *)
(***************************************************************************)
EXTENDS Integers, Sequences, FiniteSets, TLC

VARIABLES
    players,       \* HashMap<&str, Player>: name -> [keypair, vrf_output, vrf_proof]
    order,         \* iteration order of the HashMap (fixed while the map is not modified)
    pc,            \* position of main / of the harness
    round,         \* loop variable of `for round in 1..=10`
    idx,           \* position of an inner loop over the players
    commit_input,  \* commit_string.as_bytes() of the current round
    commit_log,    \* history: the commitment input built in each round so far
    drawn_input,   \* history: the input of each player's latest draw_card
    cards,         \* printed by the reveal loop: name -> Option<u8>
    valid,         \* printed by the verify loop: name -> Option<bool>
    winner,        \* printed by the winner step: Option<name>
    ret,           \* the latest Player call and what it returned
    hash,          \* SpecMapper: the byte sequence handed to the card mapping
    draws,         \* history: the inputs each player has drawn on in the current round
    seen           \* SpecVerify: an earlier verify_card call and its result

vars == <<players, order, pc, round, idx, commit_input, commit_log,
          drawn_input, cards, valid, winner, ret, hash, draws, seen>>

(***************************************************************************)
(* Bounds of the model.                                                    *)
(***************************************************************************)
MaxKey == 3          \* key pairs OsRng can produce: 0..MaxKey
MaxNonce == 0        \* witness randomness of a proof: 0..MaxNonce
NumSamples == 2      \* VRF outputs the engine can produce: samples 0..NumSamples-1
NumSlots == 2        \* inputs are hashed into this many classes
MaxInputRound == 1   \* SpecPlayer also draws on the commitments of rounds 1..MaxInputRound
MaxHashLen == 9      \* SpecMapper: byte sequences of length 0..MaxHashLen
MaxByteSel == 1      \* SpecMapper: each byte drawn from ByteSample(0..MaxByteSel)

(***************************************************************************)
(* Program constants.                                                      *)
(***************************************************************************)
CONTEXT == <<101, 120, 97, 109, 112, 108, 101>>      \* b"example"
Rounds == 10                                         \* 1..=10
DeckSize == 52                                       \* % 52
U64Bytes == 8                                        \* hash[0..8], hash.len() < 8
OutputLen == 32                                      \* VRFPreOut::to_bytes(): [u8; 32]
Names == {"Alice", "Bob"}

(***************************************************************************)
(* Option<T>: None is the empty sequence, Some(x) the one-element one.     *)
(***************************************************************************)
None == <<>>
Some(x) == <<x>>
IsSome(o) == o # <<>>
IsNone(o) == o = <<>>
UnwrapOr(o, d) == IF o = <<>> THEN d ELSE o[1]

(***************************************************************************)
(* Byte strings.                                                           *)
(***************************************************************************)
RECURSIVE SumBytes(_)
SumBytes(s) == IF s = <<>> THEN 0 ELSE s[1] + SumBytes(Tail(s))

\* format!("{}", n) for n >= 0: the decimal digits, most significant first.
RECURSIVE Decimal(_)
Decimal(n) == IF n < 10 THEN <<48 + n>> ELSE Decimal(n \div 10) \o <<48 + (n % 10)>>

\* a two-digit round number rendered by its leading digit only
BuildCommitment_prefix(n) ==
    <<112, 111, 107, 101, 114, 95, 103, 97, 109, 101>> \o <<Head(Decimal(n))>>

\* format!("poker_game{}", round).as_bytes()
BuildCommitment(n) ==
    <<112, 111, 107, 101, 114, 95, 103, 97, 109, 101>> \o Decimal(n)

\* signing_context(CONTEXT).bytes(input): the transcript binds both strings
Transcript(input) == [ctx |-> CONTEXT, msg |-> input]

(***************************************************************************)
(* VRF engine (schnorrkel), as the contract of a VRF: the output is a      *)
(* fixed function of (secret key, transcript); a proof is bound to the     *)
(* public key, the transcript and the output it was made for.  The secret  *)
(* key fixes the function: its digits in base NumSamples are the output    *)
(* samples of the input classes, so the keys range over different          *)
(* functions, some agreeing on a class and some not.                       *)
(***************************************************************************)
Keys == 0..MaxKey
Nonces == 0..MaxNonce
Public(secret) == <<secret>>
Keypairs == {[secret |-> k, public |-> Public(k)] : k \in Keys}

\* the 32 output bytes of sample n
OutputSample(n) == [j \in 1..OutputLen |-> (n * (37 * j + 11)) % 256]

Slot(t) == (SumBytes(t.ctx) + SumBytes(t.msg)) % NumSlots

\* digit number `slot` of the secret key in base NumSamples
RECURSIVE KeyDigit(_, _)
KeyDigit(secret, slot) ==
    IF slot = 0 THEN secret % NumSamples ELSE KeyDigit(secret \div NumSamples, slot - 1)

\* VRFInOut: the input point (public key and transcript hashed together)
\* and the output point
VrfInOut(keypair, t) ==
    [input |-> [public |-> keypair.public, t |-> t],
     output |-> OutputSample(KeyDigit(keypair.secret, Slot(t)))]

\* Keypair::vrf_sign(t) -> (VRFInOut, VRFProof, _)
vrf_sign(keypair, t, nonce) ==
    LET inout == VrfInOut(keypair, t)
    IN  [inout |-> inout,
         proof |-> [public |-> keypair.public, t |-> t,
                    preout |-> inout.output, nonce |-> nonce]]

\* VRFInOut::to_preout()
to_preout(inout) == inout.output

\* PublicKey::vrf_verify(t, preout, proof).is_ok()
vrf_verify(public, t, preout, proof) ==
    /\ proof.public = public
    /\ proof.t = t
    /\ proof.preout = preout

(***************************************************************************)
(* Card mapping (reveal_card, lines 32-37).                                *)
(***************************************************************************)
\* u64::from_le_bytes(b) % m.  A u64 does not fit TLC's integers, so the
\* value stays in its little-endian base-256 digits and the remainder is
\* taken by long division from the most significant digit down.
RECURSIVE U64LeMod(_, _)
U64LeMod(b, m) ==
    IF b = <<>> THEN 0
    ELSE (U64LeMod(Tail(b), m) * 256 + Head(b)) % m

\* `as u8`
AsU8(v) == v % 256

\* reads the eight bytes most significant first
CardMapper_be(h) ==
    IF Len(h) < U64Bytes THEN None
    ELSE LET rev == [i \in 1..U64Bytes |-> h[U64Bytes + 1 - i]]
         IN  Some(AsU8(U64LeMod(rev, DeckSize)))

\* the length guard turned round: more than eight bytes is refused
CardMapper_guard(h) ==
    IF Len(h) > U64Bytes THEN None
    ELSE Some(AsU8(U64LeMod(SubSeq(h, 1, U64Bytes), DeckSize)))

\* the closure body of reveal_card on the output bytes
CardMapper(h) ==
    IF Len(h) < U64Bytes THEN None
    ELSE Some(AsU8(U64LeMod(SubSeq(h, 1, U64Bytes), DeckSize)))

(***************************************************************************)
(* Player (lines 8-51).                                                    *)
(***************************************************************************)
\* Player::new() with the key pair OsRng produced
NewPlayer(keypair) == [keypair |-> keypair, vrf_output |-> None, vrf_proof |-> None]

\* output.output.to_bytes().to_vec()
to_bytes(preout) == preout

\* draw_card that stores the output only
draw_card_noproof(self, input, nonce) ==
    LET s == vrf_sign(self.keypair, Transcript(input), nonce)
    IN  [self EXCEPT !.vrf_output = Some(s.inout)]

\* draw_card that keeps an output it already holds
draw_card_keep(self, input, nonce) ==
    LET s == vrf_sign(self.keypair, Transcript(input), nonce)
    IN  [self EXCEPT !.vrf_output = IF IsSome(@) THEN @ ELSE Some(s.inout),
                     !.vrf_proof = Some(s.proof)]

\* draw_card that keeps a proof it already holds
draw_card_keepproof(self, input, nonce) ==
    LET s == vrf_sign(self.keypair, Transcript(input), nonce)
    IN  [self EXCEPT !.vrf_output = Some(s.inout),
                     !.vrf_proof = IF IsSome(@) THEN @ ELSE Some(s.proof)]

\* Player::draw_card(&mut self, input)
draw_card(self, input, nonce) ==
    LET s == vrf_sign(self.keypair, Transcript(input), nonce)
    IN  [self EXCEPT !.vrf_output = Some(s.inout), !.vrf_proof = Some(s.proof)]

\* Player::reveal_card(&self) -> Option<u8>
reveal_card(self) ==
    IF IsNone(self.vrf_output) THEN None
    ELSE CardMapper(to_bytes(self.vrf_output[1].output))

\* verify_card whose else branch answers true
verify_card_default_true(self, input) ==
    IF IsSome(self.vrf_output) /\ IsSome(self.vrf_proof)
    THEN vrf_verify(self.keypair.public, Transcript(input),
                    to_preout(self.vrf_output[1]), self.vrf_proof[1])
    ELSE TRUE

\* verify_card under another signing context than draw_card
verify_card_nocontext(self, input) ==
    IF IsSome(self.vrf_output) /\ IsSome(self.vrf_proof)
    THEN vrf_verify(self.keypair.public, [ctx |-> <<>>, msg |-> input],
                    to_preout(self.vrf_output[1]), self.vrf_proof[1])
    ELSE FALSE

\* verify_card that checks the proof against the input it was made for
verify_card_anyinput(self, input) ==
    IF IsSome(self.vrf_output) /\ IsSome(self.vrf_proof)
    THEN vrf_verify(self.keypair.public, self.vrf_proof[1].t,
                    to_preout(self.vrf_output[1]), self.vrf_proof[1])
    ELSE FALSE

\* Player::verify_card(&self, input) -> bool
verify_card(self, input) ==
    IF IsSome(self.vrf_output) /\ IsSome(self.vrf_proof)
    THEN vrf_verify(self.keypair.public, Transcript(input),
                    to_preout(self.vrf_output[1]), self.vrf_proof[1])
    ELSE FALSE

(***************************************************************************)
(* Winner selection (line 86).                                             *)
(***************************************************************************)
\* a missing card counted as the highest key instead of the lowest
WinnerKey_max(self) == UnwrapOr(reveal_card(self), 255)

\* the key closure: player.reveal_card().unwrap_or(0)
WinnerKey(self) == UnwrapOr(reveal_card(self), 0)

\* Iterator::max_by_key keeping the earlier of two equal keys
RECURSIVE MaxByKey_first(_, _, _)
MaxByKey_first(ps, ord, acc) ==
    IF ord = <<>> THEN acc
    ELSE MaxByKey_first(ps, Tail(ord),
            IF WinnerKey(ps[Head(ord)]) > WinnerKey(ps[acc]) THEN Head(ord) ELSE acc)

\* Iterator::min_by_key in place of max_by_key
RECURSIVE MaxByKey_min(_, _, _)
MaxByKey_min(ps, ord, acc) ==
    IF ord = <<>> THEN acc
    ELSE MaxByKey_min(ps, Tail(ord),
            IF WinnerKey(ps[acc]) < WinnerKey(ps[Head(ord)]) THEN acc ELSE Head(ord))

\* Iterator::max_by_key folded over the rest of the iteration: the
\* accumulator is replaced unless it compares Greater, so of several equal
\* maxima the last one is returned.
RECURSIVE MaxByKey(_, _, _)
MaxByKey(ps, ord, acc) ==
    IF ord = <<>> THEN acc
    ELSE MaxByKey(ps, Tail(ord),
            IF WinnerKey(ps[acc]) > WinnerKey(ps[Head(ord)]) THEN acc ELSE Head(ord))

\* players.iter().max_by_key(|&(_, player)| player.reveal_card().unwrap_or(0))
SelectWinner(ps, ord) ==
    IF ord = <<>> THEN None ELSE Some(MaxByKey(ps, Tail(ord), Head(ord)))

(***************************************************************************)
(* Initial states.                                                         *)
(***************************************************************************)
\* the orders in which a HashMap of the names can iterate
IterationOrders ==
    {o \in [1..Cardinality(Names) -> Names] : \A n \in Names : \E i \in DOMAIN o : o[i] = n}

NoCall == [op |-> "none", player |-> "", input |-> <<>>, card |-> None, ok |-> FALSE]

\* lines 54-56: the map holds a fresh Player per name
InitPlayers ==
    /\ players \in [Names -> {NewPlayer(kp) : kp \in Keypairs}]
    /\ order \in IterationOrders
    /\ drawn_input = [n \in Names |-> None]
    /\ cards = [n \in Names |-> None]
    /\ valid = [n \in Names |-> None]
    /\ winner = None
    /\ commit_input = <<>>
    /\ commit_log = <<>>
    /\ ret = NoCall
    /\ idx = 1
    /\ hash = <<>>
    /\ draws = [n \in Names |-> <<>>]
    /\ seen = None

Init ==
    /\ InitPlayers
    /\ pc = "BuildCommitment"
    /\ round = 1

(***************************************************************************)
(* The game session: main, lines 59-90.                                    *)
(***************************************************************************)
\* the loop left after its first player
LoopNext_first(next) ==
    /\ idx' = 1
    /\ pc' = next

\* the draw loop followed directly by the winner selection
LoopNext_skip(next) ==
    IF idx < Len(order)
    THEN /\ idx' = idx + 1
         /\ pc' = pc
    ELSE /\ idx' = 1
         /\ pc' = IF pc = "Draw" THEN "SelectWinner" ELSE next

\* the verify loop left after its first player
LoopNext_break(next) ==
    IF idx < Len(order) /\ pc # "Verify"
    THEN /\ idx' = idx + 1
         /\ pc' = pc
    ELSE /\ idx' = 1
         /\ pc' = next

\* advance an inner loop over the players; after the last one go to `next`
LoopNext(next) ==
    IF idx < Len(order)
    THEN /\ idx' = idx + 1
         /\ pc' = pc
    ELSE /\ idx' = 1
         /\ pc' = next

\* lines 60-64
BuildCommitmentStep ==
    /\ pc = "BuildCommitment"
    /\ commit_input' = BuildCommitment(round)
    /\ commit_log' = Append(commit_log, BuildCommitment(round))
    /\ cards' = [n \in Names |-> None]
    /\ valid' = [n \in Names |-> None]
    /\ winner' = None
    /\ pc' = "Draw"
    /\ idx' = 1
    /\ draws' = [n \in Names |-> <<>>]
    /\ UNCHANGED <<players, order, round, drawn_input, ret, hash, seen>>

\* the drawn record kept in one place shared by all players
DrawStep_shared ==
    /\ pc = "Draw"
    /\ \E nonce \in Nonces :
         players' = [n \in Names |->
                        [players[n] EXCEPT
                            !.vrf_output = draw_card(players[order[idx]], commit_input,
                                                     nonce).vrf_output,
                            !.vrf_proof = draw_card(players[order[idx]], commit_input,
                                                    nonce).vrf_proof]]
    /\ drawn_input' = [drawn_input EXCEPT ![order[idx]] = Some(commit_input)]
    /\ ret' = [op |-> "draw_card", player |-> order[idx], input |-> commit_input,
               card |-> None, ok |-> FALSE]
    /\ draws' = [draws EXCEPT ![order[idx]] = Append(@, commit_input)]
    /\ LoopNext("Reveal")
    /\ UNCHANGED <<order, round, commit_input, commit_log, cards, valid,
                   winner, hash, seen>>

\* lines 67-69, one player
DrawStep ==
    /\ pc = "Draw"
    /\ \E nonce \in Nonces :
         players' = [players EXCEPT ![order[idx]] =
                        draw_card(@, commit_input, nonce)]
    /\ drawn_input' = [drawn_input EXCEPT ![order[idx]] = Some(commit_input)]
    /\ ret' = [op |-> "draw_card", player |-> order[idx], input |-> commit_input,
               card |-> None, ok |-> FALSE]
    /\ draws' = [draws EXCEPT ![order[idx]] = Append(@, commit_input)]
    /\ LoopNext("Reveal")
    /\ UNCHANGED <<order, round, commit_input, commit_log, cards, valid,
                   winner, hash, seen>>

\* lines 72-78, one player
RevealStep ==
    /\ pc = "Reveal"
    /\ cards' = [cards EXCEPT ![order[idx]] = Some(reveal_card(players[order[idx]]))]
    /\ ret' = [op |-> "reveal_card", player |-> order[idx], input |-> <<>>,
               card |-> reveal_card(players[order[idx]]), ok |-> FALSE]
    /\ LoopNext("Verify")
    /\ UNCHANGED <<players, order, round, commit_input, commit_log,
                   drawn_input, valid, winner, hash, draws, seen>>

\* lines 81-84, one player
VerifyStep ==
    /\ pc = "Verify"
    /\ valid' = [valid EXCEPT ![order[idx]] =
                    Some(verify_card(players[order[idx]], commit_input))]
    /\ ret' = [op |-> "verify_card", player |-> order[idx], input |-> commit_input,
               card |-> None, ok |-> verify_card(players[order[idx]], commit_input)]
    /\ LoopNext("SelectWinner")
    /\ UNCHANGED <<players, order, round, commit_input, commit_log,
                   drawn_input, cards, winner, hash, draws, seen>>

\* lines 86-89
SelectWinnerStep ==
    /\ pc = "SelectWinner"
    /\ winner' = SelectWinner(players, order)
    /\ pc' = "Done"
    /\ UNCHANGED <<players, order, round, idx, commit_input, commit_log,
                   drawn_input, cards, valid, ret, hash, draws, seen>>

\* the range without its upper end
NextRound_nolimit ==
    /\ pc = "Done"
    /\ round' = round + 1
    /\ pc' = "BuildCommitment"
    /\ UNCHANGED <<players, order, idx, commit_input, commit_log,
                   drawn_input, cards, valid, winner, ret, hash, draws, seen>>

\* line 59: the next value of the range
NextRound ==
    /\ pc = "Done"
    /\ round < Rounds
    /\ round' = round + 1
    /\ pc' = "BuildCommitment"
    /\ UNCHANGED <<players, order, idx, commit_input, commit_log,
                   drawn_input, cards, valid, winner, ret, hash, draws, seen>>

\* line 59: the range is exhausted; main returns
Exit ==
    /\ pc = "Done"
    /\ round = Rounds
    /\ pc' = "Exit"
    /\ UNCHANGED <<players, order, round, idx, commit_input, commit_log,
                   drawn_input, cards, valid, winner, ret, hash, draws, seen>>

Next ==
    \/ BuildCommitmentStep
    \/ DrawStep
    \/ RevealStep
    \/ VerifyStep
    \/ SelectWinnerStep
    \/ NextRound
    \/ Exit

Spec == Init /\ [][Next]_vars

\* main runs to completion: a step that can be taken is taken
SpecFair == Init /\ [][Next]_vars /\ WF_vars(Next)

(***************************************************************************)
(* The Player API called freely (the tests module, lines 94-137).          *)
(***************************************************************************)
\* b"test", b"wrong" and the commitments of the first rounds
TestInputs ==
    {<<116, 101, 115, 116>>, <<119, 114, 111, 110, 103>>}
        \cup {BuildCommitment(n) : n \in 1..MaxInputRound}

InitPlayer ==
    /\ InitPlayers
    /\ pc = "harness"
    /\ round = 0

\* player.draw_card(input)
DrawCard(p, input, nonce) ==
    /\ pc = "harness"
    /\ players' = [players EXCEPT ![p] = draw_card(@, input, nonce)]
    /\ drawn_input' = [drawn_input EXCEPT ![p] = Some(input)]
    /\ ret' = [op |-> "draw_card", player |-> p, input |-> input,
               card |-> None, ok |-> FALSE]
    /\ winner' = None
    /\ UNCHANGED <<order, pc, round, idx, commit_input, commit_log,
                   cards, valid, hash, draws, seen>>

\* reveal_card that takes the output out of the record
RevealCard_take(p) ==
    /\ pc = "harness"
    /\ ret' = [op |-> "reveal_card", player |-> p, input |-> <<>>,
               card |-> reveal_card(players[p]), ok |-> FALSE]
    /\ players' = [players EXCEPT ![p].vrf_output = None]
    /\ winner' = None
    /\ UNCHANGED <<order, pc, round, idx, commit_input,
                   commit_log, drawn_input, cards, valid, hash, draws, seen>>

\* player.reveal_card()
RevealCard(p) ==
    /\ pc = "harness"
    /\ ret' = [op |-> "reveal_card", player |-> p, input |-> <<>>,
               card |-> reveal_card(players[p]), ok |-> FALSE]
    /\ winner' = None
    /\ UNCHANGED <<players, order, pc, round, idx, commit_input,
                   commit_log, drawn_input, cards, valid, hash, draws, seen>>

\* player.verify_card(input)
VerifyCard(p, input) ==
    /\ pc = "harness"
    /\ ret' = [op |-> "verify_card", player |-> p, input |-> input,
               card |-> None, ok |-> verify_card(players[p], input)]
    /\ winner' = None
    /\ UNCHANGED <<players, order, pc, round, idx, commit_input,
                   commit_log, drawn_input, cards, valid, hash, draws, seen>>

\* the winner expression of line 86 on the map as it stands
PickWinner ==
    /\ pc = "harness"
    /\ winner' = SelectWinner(players, order)
    /\ ret' = [op |-> "select_winner", player |-> "", input |-> <<>>,
               card |-> None, ok |-> FALSE]
    /\ UNCHANGED <<players, order, pc, round, idx, commit_input,
                   commit_log, drawn_input, cards, valid, hash, draws, seen>>

NextPlayer ==
    \/ \E p \in Names, input \in TestInputs, nonce \in Nonces : DrawCard(p, input, nonce)
    \/ \E p \in Names : RevealCard(p)
    \/ \E p \in Names, input \in TestInputs : VerifyCard(p, input)
    \/ PickWinner

SpecPlayer == InitPlayer /\ [][NextPlayer]_vars

(***************************************************************************)
(* One Player called repeatedly, as each test does with its `player`       *)
(* (lines 98-136); `seen` keeps one earlier verify_card call of the        *)
(* current record, any one, to compare later calls with.                   *)
(***************************************************************************)
Tested == CHOOSE n \in Names : TRUE

InitVerify ==
    /\ InitPlayers
    /\ pc = "verify_harness"
    /\ round = 0

\* an earlier call has been followed by another call
Later(s) == IF IsNone(s) THEN s ELSE Some([s[1] EXCEPT !.later = TRUE])

\* player.draw_card(input): a new record, nothing seen of it yet
VDraw(input, nonce) ==
    /\ pc = "verify_harness"
    /\ players' = [players EXCEPT ![Tested] = draw_card(@, input, nonce)]
    /\ drawn_input' = [drawn_input EXCEPT ![Tested] = Some(input)]
    /\ ret' = [op |-> "draw_card", player |-> Tested, input |-> input,
               card |-> None, ok |-> FALSE]
    /\ seen' = None
    /\ UNCHANGED <<order, pc, round, idx, commit_input, commit_log,
                   cards, valid, winner, hash, draws>>

\* player.reveal_card()
VReveal ==
    /\ pc = "verify_harness"
    /\ ret' = [op |-> "reveal_card", player |-> Tested, input |-> <<>>,
               card |-> reveal_card(players[Tested]), ok |-> FALSE]
    /\ seen' = Later(seen)
    /\ UNCHANGED <<players, order, pc, round, idx, commit_input, commit_log,
                   drawn_input, cards, valid, winner, hash, draws>>

\* verify_card that takes the proof out of the record
VVerify_take(input, remember) ==
    /\ pc = "verify_harness"
    /\ ret' = [op |-> "verify_card", player |-> Tested, input |-> input,
               card |-> None, ok |-> verify_card(players[Tested], input)]
    /\ seen' = IF remember
               THEN Some([input |-> input, ok |-> verify_card(players[Tested], input),
                          later |-> FALSE])
               ELSE Later(seen)
    /\ players' = [players EXCEPT ![Tested].vrf_proof = None]
    /\ UNCHANGED <<order, pc, round, idx, commit_input, commit_log,
                   drawn_input, cards, valid, winner, hash, draws>>

\* player.verify_card(input), kept in `seen` or not
VVerify(input, remember) ==
    /\ pc = "verify_harness"
    /\ ret' = [op |-> "verify_card", player |-> Tested, input |-> input,
               card |-> None, ok |-> verify_card(players[Tested], input)]
    /\ seen' = IF remember
               THEN Some([input |-> input, ok |-> verify_card(players[Tested], input),
                          later |-> FALSE])
               ELSE Later(seen)
    /\ UNCHANGED <<players, order, pc, round, idx, commit_input, commit_log,
                   drawn_input, cards, valid, winner, hash, draws>>

NextVerify ==
    \/ \E input \in TestInputs, nonce \in Nonces : VDraw(input, nonce)
    \/ VReveal
    \/ \E input \in TestInputs, remember \in BOOLEAN : VVerify(input, remember)

SpecVerify == InitVerify /\ [][NextVerify]_vars

(***************************************************************************)
(* The card mapping on byte sequences of every length.                     *)
(***************************************************************************)
ByteSample(k) == (k * 127) % 256

RECURSIVE ByteSeqs(_)
ByteSeqs(n) ==
    IF n = 0 THEN {<<>>}
    ELSE LET shorter == ByteSeqs(n - 1)
         IN  shorter \cup {Append(s, ByteSample(k)) :
                              s \in {x \in shorter : Len(x) = n - 1}, k \in 0..MaxByteSel}

InitMapper ==
    /\ hash \in ByteSeqs(MaxHashLen)
    /\ pc = "mapper"
    /\ round = 0
    /\ players = [n \in Names |-> NewPlayer([secret |-> 0, public |-> Public(0)])]
    /\ order \in IterationOrders
    /\ drawn_input = [n \in Names |-> None]
    /\ cards = [n \in Names |-> None]
    /\ valid = [n \in Names |-> None]
    /\ winner = None
    /\ commit_input = <<>>
    /\ commit_log = <<>>
    /\ ret = NoCall
    /\ idx = 1
    /\ draws = [n \in Names |-> <<>>]
    /\ seen = None

\* lines 32-37 on `hash`
MapCard ==
    /\ pc = "mapper"
    /\ ret' = [op |-> "map", player |-> "", input |-> <<>>,
               card |-> CardMapper(hash), ok |-> FALSE]
    /\ pc' = "mapped"
    /\ UNCHANGED <<players, order, round, idx, commit_input, commit_log,
                   drawn_input, cards, valid, winner, hash, draws, seen>>

NextMapper == MapCard

SpecMapper == InitMapper /\ [][NextMapper]_vars

(***************************************************************************)
(* Properties.                                                             *)
(***************************************************************************)
\* the latest call was `op` on a player that has drawn / has never drawn
CalledOnDrawn(op) ==
    /\ ret.op = op
    /\ IsSome(drawn_input[ret.player])
CalledOnFresh(op) ==
    /\ ret.op = op
    /\ IsNone(drawn_input[ret.player])

\* C1 (soundness): whenever verify_card is called with the input of the
\* player's latest draw_card, it returns true.
C1_Soundness ==
    (CalledOnDrawn("verify_card") /\ ret.input = drawn_input[ret.player][1])
        => ret.ok
C1_Witness ==
    /\ CalledOnDrawn("verify_card")
    /\ ret.input = drawn_input[ret.player][1]
    /\ ret.ok

\* C2 (binding): whenever verify_card is called with an input other than
\* the one of the player's latest draw_card, it returns false.
C2_Binding ==
    (CalledOnDrawn("verify_card") /\ ret.input # drawn_input[ret.player][1])
        => ~ret.ok
C2_Witness ==
    /\ CalledOnDrawn("verify_card")
    /\ ret.input # drawn_input[ret.player][1]
    /\ ~ret.ok

\* C3 (missing draw): a player that has never drawn holds neither output
\* nor proof; reveal_card on it returns none and verify_card returns false,
\* on every input.  (Both calls are total: the actions are always enabled
\* and their results are evaluated without error.)
C3_MissingDraw ==
    /\ \A p \in Names : IsNone(drawn_input[p]) =>
          /\ IsNone(players[p].vrf_output)
          /\ IsNone(players[p].vrf_proof)
    /\ CalledOnFresh("reveal_card") => IsNone(ret.card)
    /\ CalledOnFresh("verify_card") => ~ret.ok
C3_Witness ==
    /\ CalledOnFresh("verify_card")
    /\ ~ret.ok
    /\ IsNone(players[ret.player].vrf_output)

\* C4 (range): reveal_card returns none exactly when the player has never
\* drawn, and otherwise a card value in 0..51.
C4_RevealRange ==
    ret.op = "reveal_card" =>
        /\ IsNone(ret.card) <=> IsNone(drawn_input[ret.player])
        /\ IsSome(ret.card) => ret.card[1] \in 0..(DeckSize - 1)
C4_Witness ==
    /\ CalledOnDrawn("reveal_card")
    /\ IsSome(ret.card)
    /\ ret.card[1] > 0

\* the value of the first eight bytes as a little-endian number, modulo 52,
\* from the weights 256^i mod 52 of the digits
RECURSIVE Pow256Mod52(_)
Pow256Mod52(e) == IF e = 0 THEN 1 ELSE (256 * Pow256Mod52(e - 1)) % 52
LittleEndianMod52(h) ==
    LET Weighted[i \in 0..8] ==
            IF i = 0 THEN 0 ELSE Weighted[i - 1] + h[i] * Pow256Mod52(i - 1)
    IN  Weighted[8] % 52

\* C5 (card mapper): of 8 or more bytes the card is the little-endian value
\* of the first 8 bytes modulo 52, whatever follows them and with nothing
\* lost by the narrowing to u8; of fewer than 8 bytes it is none.
C5_CardMapper ==
    ret.op = "map" =>
        IF Len(hash) >= 8
        THEN ret.card = Some(LittleEndianMod52(hash))
        ELSE ret.card = None
C5_Witness ==
    /\ ret.op = "map"
    /\ Len(hash) > 8
    /\ hash[9] # 0
    /\ IsSome(ret.card)
    /\ ret.card[1] > 0

\* the comparison value of a player: the card printed by the reveal loop,
\* 0 when there is none
Comparison(n) == UnwrapOr(UnwrapOr(cards[n], None), 0)
IsMaximal(n) == \A m \in Names : Comparison(n) >= Comparison(m)

\* C6 (winner): the announced winner's comparison value is at least that of
\* every player.
C6_WinnerIsMaximal ==
    IsSome(winner) => IsMaximal(winner[1])
C6_Witness ==
    /\ pc = "Done"
    /\ IsSome(winner)
    /\ \E m \in Names : Comparison(m) < Comparison(winner[1])

\* C7 as claimed: of several players with the maximum, the one met first in
\* the iteration wins.
C7_FirstOfTies ==
    IsSome(winner) =>
        \A i, j \in DOMAIN order :
            (i < j /\ IsMaximal(order[i]) /\ IsMaximal(order[j])) => winner[1] # order[j]

\* C7 as amended: of several players with the maximum, the one met last in
\* the iteration wins.
C7_LastOfTies ==
    IsSome(winner) =>
        \A i, j \in DOMAIN order :
            (i < j /\ IsMaximal(order[i]) /\ IsMaximal(order[j])) => winner[1] # order[i]
C7_Witness ==
    /\ pc = "Done"
    /\ IsSome(winner)
    /\ \A n \in Names : IsMaximal(n)
    /\ winner[1] = order[Len(order)]

\* C8 (no card): when the winner expression picks a player without a card,
\* every card there is equals 0; so no such player wins against a card
\* greater than 0.
C8_NoCardNeverBeatsCard ==
    (IsSome(winner) /\ IsNone(reveal_card(players[winner[1]])))
        => \A n \in Names : reveal_card(players[n]) \in {None, Some(0)}
C8_Witness ==
    /\ IsSome(winner)
    /\ \E n \in Names : IsNone(reveal_card(players[n]))
    /\ IsSome(reveal_card(players[winner[1]]))
    /\ reveal_card(players[winner[1]])[1] > 0

\* C9 (anti-replay): the commitment inputs built in distinct rounds differ.
C9_DistinctCommitments ==
    \A n, m \in DOMAIN commit_log : n # m => commit_log[n] # commit_log[m]
C9_Witness ==
    /\ Len(commit_log) = Rounds
    /\ round = Rounds
    /\ SubSeq(commit_log[Rounds], 1, Len(commit_log[1])) = commit_log[1]

BothOrNeither(p) == IsSome(players[p].vrf_output) <=> IsSome(players[p].vrf_proof)
BothPresent(p) == IsSome(players[p].vrf_output) /\ IsSome(players[p].vrf_proof)

\* C10 (record): output and proof of every player are both present or both
\* absent in every state, and once both present they stay present.
C10_RecordPaired ==
    /\ [](\A p \in Names : BothOrNeither(p))
    /\ [][\A p \in Names : BothPresent(p) => BothPresent(p)']_vars
C10_Witness ==
    /\ CalledOnDrawn("reveal_card")
    /\ BothPresent(ret.player)
    /\ \E p \in Names : IsNone(players[p].vrf_output) /\ IsNone(players[p].vrf_proof)

(***************************************************************************)
(* Properties of the session.                                              *)
(***************************************************************************)
DrewThisRound(p) == draws[p] # <<>>
BothPresentRecord(self) == IsSome(self.vrf_output) /\ IsSome(self.vrf_proof)
PhaseOrder ==
    {<<"BuildCommitment", "Draw">>, <<"Draw", "Reveal">>, <<"Reveal", "Verify">>,
     <<"Verify", "SelectWinner">>, <<"SelectWinner", "Done">>,
     <<"Done", "BuildCommitment">>, <<"Done", "Exit">>}

\* C11 (lifecycle): the phases follow one another in the order
\* BuildCommitment, Draw, Reveal, Verify, SelectWinner, Done; no player's
\* card is revealed before every player has drawn in the round, none is
\* verified before every card is revealed, no winner is selected before
\* every card is verified; and the round number changes only from Done.
C11_Lifecycle ==
    /\ [](/\ (\E p \in Names : IsSome(cards[p])) => \A q \in Names : DrewThisRound(q)
          /\ (\E p \in Names : IsSome(valid[p])) => \A q \in Names : IsSome(cards[q])
          /\ IsSome(winner) => \A q \in Names : IsSome(valid[q])
          /\ pc = "Draw" => \A q \in Names : IsNone(cards[q]) /\ IsNone(valid[q]))
    /\ [][/\ pc' # pc => <<pc, pc'>> \in PhaseOrder
          /\ round' # round => (pc = "Done" /\ pc' = "BuildCommitment")]_vars
C11_Witness ==
    /\ pc = "Verify"
    /\ round = 2
    /\ idx = 2
    /\ IsSome(valid[order[1]])
    /\ IsNone(valid[order[2]])

\* C12 (one draw per round): while players draw, each has drawn at most
\* once; from the reveal loop on, each has drawn exactly once, all on the
\* commitment input of the round, which stays as built until the round is
\* done; the record a player holds is the one of its latest draw.
C12_OneDrawPerRound ==
    /\ [](/\ \A p \in Names : Len(draws[p]) <= 1
          /\ pc \in {"Reveal", "Verify", "SelectWinner", "Done"} =>
                \A p \in Names : draws[p] = <<BuildCommitment(round)>>
          /\ \A p \in Names : DrewThisRound(p) =>
                /\ draws[p] = <<commit_input>>
                /\ BothPresentRecord(players[p])
                /\ players[p].vrf_proof[1].t = Transcript(commit_input)
                /\ players[p].vrf_output[1].input.t = Transcript(commit_input))
    /\ [][(pc \in {"Draw", "Reveal", "Verify", "SelectWinner"})
             => (commit_input' = commit_input)]_vars
C12_Witness ==
    /\ pc = "Reveal"
    /\ round = 3
    /\ \A p \in Names : draws[p] = <<BuildCommitment(3)>>

AllReported ==
    \A p \in Names : IsSome(cards[p]) /\ IsSome(valid[p])

\* C13 (completion): every round that starts reaches Done without the round
\* number changing on the way, and at Done every player has one reveal
\* result (a card or none) and one validity boolean reported, whatever the
\* reveal results are.
C13_RoundCompletes ==
    /\ (pc = "BuildCommitment") ~> (pc = "Done" /\ AllReported)
    /\ [][pc # "Done" => round' = round]_vars
    /\ [](pc = "Done" => AllReported)
C13_Witness ==
    /\ pc = "Done"
    /\ round = Rounds
    /\ AllReported
    /\ IsSome(winner)

\* C14 (termination): the round counter starts at 1, stays within
\* 1..Rounds, moves only by +1 and only when a round is done; the session
\* ends, after round Rounds is done, and nothing happens after the end.
C14_Terminates ==
    /\ round = 1
    /\ [](round \in 1..Rounds)
    /\ [][round' # round => (round' = round + 1 /\ pc = "Done")]_vars
    /\ [][pc' = "Exit" => (pc = "Done" /\ round = Rounds)]_vars
    /\ [][pc # "Exit"]_vars
    /\ <>(pc = "Exit")
C14_Witness ==
    /\ pc = "Exit"
    /\ round = Rounds
    /\ Len(commit_log) = Rounds

(***************************************************************************)
(* Properties of the calls.                                                *)
(***************************************************************************)
\* C15 (pure queries): a reveal_card or verify_card call leaves every
\* player, the called one included, as it was: key pair, output and proof.
C15_PureQueries ==
    [][ret'.op \in {"reveal_card", "verify_card"} => players' = players]_vars
C15_Witness ==
    /\ ret.op = "reveal_card"
    /\ BothPresentRecord(players[ret.player])
    /\ IsSome(ret.card)
    /\ \E q \in Names : q # ret.player /\ BothPresentRecord(players[q])

\* C16 (idempotence): a verify_card call returns what any earlier
\* verify_card call on the same input returned since the latest draw_card,
\* whatever reveal_card and verify_card calls came in between.
C16_VerifyIdempotent ==
    (ret.op = "verify_card" /\ IsSome(seen) /\ seen[1].input = ret.input)
        => ret.ok = seen[1].ok
C16_Witness ==
    /\ ret.op = "verify_card"
    /\ IsSome(seen)
    /\ seen[1].later
    /\ seen[1].input = ret.input
    /\ ret.ok

\* what a player holding `keypair` gets from drawing on `input`, from the
\* key and the input alone
CardOf(keypair, input) == CardMapper(VrfInOut(keypair, Transcript(input)).output)
MaximalSet == {n \in Names : IsMaximal(n)}

\* C17 (independent draws): a draw step changes the record of the drawing
\* player only and no key pair; so, in whichever order the map iterates,
\* at the end of a round each player's card is the one its own key gives on
\* the round's input, each validity is the one of its own record, and the
\* winner is among the players whose card is maximal.
C17_IndependentDraws ==
    /\ [][pc = "Draw" =>
            /\ \A q \in Names : q # order[idx] => players'[q] = players[q]
            /\ \A q \in Names : players'[q].keypair = players[q].keypair]_vars
    /\ [](pc = "Done" =>
            /\ \A p \in Names : cards[p] = Some(CardOf(players[p].keypair, BuildCommitment(round)))
            /\ \A p \in Names : valid[p] = Some(verify_card(players[p], BuildCommitment(round)))
            /\ winner # None /\ winner[1] \in MaximalSet
            /\ MaximalSet =
                 {n \in Names : \A m \in Names :
                     UnwrapOr(CardOf(players[n].keypair, BuildCommitment(round)), 0)
                        >= UnwrapOr(CardOf(players[m].keypair, BuildCommitment(round)), 0)})
C17_Witness ==
    /\ pc = "Done"
    /\ round = 2
    /\ order[1] = "Bob"
    /\ MaximalSet = {"Bob"}

\* C18 (determinism): two players holding the same key pair whose latest
\* draw was on the same input reveal the same card, whatever each of them
\* drew before.
C18_CardDeterministic ==
    \A p, q \in Names :
        (/\ IsSome(drawn_input[p])
         /\ drawn_input[p] = drawn_input[q]
         /\ players[p].keypair = players[q].keypair)
            => /\ reveal_card(players[p]) = reveal_card(players[q])
               /\ reveal_card(players[p]) = CardOf(players[p].keypair, drawn_input[p][1])
C18_Witness ==
    /\ ret.op = "reveal_card"
    /\ IsSome(ret.card)
    /\ ret.card[1] > 0
    /\ \E q \in Names :
          /\ q # ret.player
          /\ drawn_input[q] = drawn_input[ret.player]
          /\ players[q].keypair = players[ret.player].keypair
          /\ reveal_card(players[q]) = ret.card

\* C19 (reference run): in main every reported reveal result is a card,
\* every reported validity is true, and a round that is done has a winner.
C19_ReferenceRun ==
    /\ \A p \in Names : IsSome(cards[p]) => IsSome(cards[p][1])
    /\ \A p \in Names : IsSome(valid[p]) => valid[p][1]
    /\ pc \in {"Done", "Exit"} => IsSome(winner)
C19_Witness ==
    /\ pc = "Exit"
    /\ IsSome(winner)
    /\ \A p \in Names : IsSome(cards[p]) /\ IsSome(cards[p][1]) /\ valid[p] = Some(TRUE)

\* the round in which the record a player holds was drawn (0: in none)
DrawnRound(p) ==
    IF pc # "BuildCommitment" /\ DrewThisRound(p) THEN round ELSE round - 1

\* C20 (stale records): a record drawn in round n verifies against the
\* commitment input of round m exactly when m = n, for every round m of
\* the session, until the player draws again.
C20_StaleRecords ==
    \A p \in Names : \A m \in 1..Rounds :
        DrawnRound(p) >= 1 =>
            (verify_card(players[p], BuildCommitment(m)) <=> m = DrawnRound(p))
C20_Witness ==
    /\ pc = "Draw"
    /\ round = Rounds
    /\ idx = 2
    /\ verify_card(players[order[1]], BuildCommitment(Rounds))
    /\ ~verify_card(players[order[1]], BuildCommitment(1))
    /\ verify_card(players[order[2]], BuildCommitment(Rounds - 1))
    /\ ~verify_card(players[order[2]], BuildCommitment(Rounds))

====
